---- MODULE Spec2Model ----
(***************************************************************************)
(* A model of cpp/src/arrow/gpu/cuda_memory.cc: CudaBuffer (ownership and  *)
(* IPC flags, Close, ExportForIpc, slices), CudaBufferReader and           *)
(* CudaBufferWriter (the write-combining cursor over a device buffer).     *)
(***************************************************************************)
EXTENDS Integers, Sequences, FiniteSets, TLC

VARIABLES
    w,          \* the writer under study, with the device bytes of its target buffer
    u,          \* a second writer, left unbuffered, fed the same Write calls as w
    logical,    \* ghost: the byte each device offset should hold after the writes made so far
                \* (for a reader: the content of the device memory it reads)
    last,       \* the last public call: its name, its integer argument, the status returned
    phase,      \* where a scenario stands: "config", "run" or "closed"
    pc,         \* per thread: position inside WriteAt
    lock_,      \* CudaBufferWriterImpl::lock_: 0 when free, else the holding thread
    req,        \* per thread: the WriteAt request [position, data] it makes
    bufs,       \* the CudaBuffer objects, by id
    calls,      \* the release requests the last call issued (context Free, cuIpcCloseMemHandle)
    released,   \* per buffer object, the number of its release requests carried out so far
    rd,         \* the CudaBufferReader over buffer 1
    exported,   \* ghost: the buffers on which an ExportForIpc call has succeeded
    ipc         \* a serialized IPC handle in host memory and the CudaIpcMemHandle at hand

vars == <<w, u, logical, last, phase, pc, lock_, req, bufs, calls, released, rd, exported, ipc>>

threadVars == <<pc, lock_, req>>
bufferVars == <<bufs, calls, released, rd, exported>>

----------------------------------------------------------------------------
(* Bounds of the model *)

MaxSize == 3        \* largest device buffer, in bytes
MaxCap == 2         \* largest staging capacity given to SetBufferSize
MaxLen == 2         \* longest data of one Write
MaxByte == 2        \* data bytes are 1..MaxByte; a fresh device buffer holds 0

Bytes == 1..MaxByte

\* the content of a pinned host buffer that nothing has been copied into yet
Uninit == -1

\* the data of one Write: up to MaxLen bytes, all of one value
Datas == {[i \in 1..n |-> v] : n \in 0..MaxLen, v \in Bytes}

\* What the driver does during one call: copy = k makes the k-th host-to-device copy
\* of the call fail (0: none fails; a call issues at most two, and stops at the first
\* that fails), alloc tells whether a pinned host allocation succeeds.
Unreliable == [copy : 0..2, alloc : BOOLEAN]
Reliable == {[copy |-> 0, alloc |-> TRUE]}

----------------------------------------------------------------------------
(* CudaBufferWriter *)

\* CudaBufferWriterImpl(buffer): a writer over a fresh device buffer of `size` bytes.
\* dev is the device memory of the target buffer; copies lists the host-to-device
\* copies the current call has asked of the context; overflow records that a copy
\* went outside [0, size_), after which nothing is known of the program.
CudaBufferWriterImpl(size) ==
    [ size_ |-> size,
      position_ |-> 0,
      buffer_size_ |-> 0,
      buffer_position_ |-> 0,
      host_buffer_data_ |-> <<>>,
      dev |-> [i \in 0..(size - 1) |-> 0],
      status |-> "OK",
      copies |-> <<>>,
      overflow |-> FALSE ]

\* a public call starts with no copy issued yet
Enter(s) == [s EXCEPT !.copies = <<>>]

\* CudaContext::CopyHostToDevice(mutable_data_ + dst, src, Len(src)): the k-th copy of
\* the call fails when d.copy = k; a copy that fails changes nothing on the device.
CopyHostToDevice(s, dst, src, d) ==
    LET k == Len(s.copies) + 1
        n == Len(src)
    IN  IF d.copy # k
        THEN [s EXCEPT
                !.dev = [i \in DOMAIN s.dev |->
                            IF i >= dst /\ i < dst + n THEN src[i - dst + 1] ELSE s.dev[i]],
                !.overflow = s.overflow \/ (n > 0 /\ (dst < 0 \/ dst + n > s.size_)),
                !.copies = Append(s.copies, [dst |-> dst, nbytes |-> n, ok |-> TRUE]),
                !.status = "OK"]
        ELSE [s EXCEPT
                !.copies = Append(s.copies, [dst |-> dst, nbytes |-> n, ok |-> FALSE]),
                !.status = "DriverError"]

\* AllocateCudaHostBuffer(n, &host_buffer_): a fresh pinned buffer of n bytes
AllocateCudaHostBuffer(n) == [i \in 0..(n - 1) |-> Uninit]

\* the first n bytes of the staging buffer, as the source of a copy
Staged(s, n) == [i \in 1..n |-> s.host_buffer_data_[i - 1]]

\* Seek accepting the one-past-the-end position
Impl_Seek_OffByOne(s, position) ==
    IF position < 0 \/ position > s.size_
    THEN [s EXCEPT !.status = "IOError"]
    ELSE [s EXCEPT !.position_ = position, !.status = "OK"]

Impl_Seek(s, position) ==
    IF position < 0 \/ position >= s.size_
    THEN [s EXCEPT !.status = "IOError"]
    ELSE [s EXCEPT !.position_ = position, !.status = "OK"]

\* Flush copying the staged bytes to the cursor instead of to where they were written
Impl_Flush_AtCursor(s, d) ==
    IF s.buffer_size_ > 0 /\ s.buffer_position_ > 0
    THEN LET c == CopyHostToDevice(s, s.position_, Staged(s, s.buffer_position_), d)
         IN  IF c.status # "OK" THEN c ELSE [c EXCEPT !.buffer_position_ = 0]
    ELSE [s EXCEPT !.status = "OK"]

\* Flush that forgets the staged bytes when the copy fails
Impl_Flush_DropOnError(s, d) ==
    IF s.buffer_size_ > 0 /\ s.buffer_position_ > 0
    THEN LET c == CopyHostToDevice(s, s.position_ - s.buffer_position_,
                                   Staged(s, s.buffer_position_), d)
         IN  [c EXCEPT !.buffer_position_ = 0]
    ELSE [s EXCEPT !.status = "OK"]

Impl_Flush(s, d) ==
    IF s.buffer_size_ > 0 /\ s.buffer_position_ > 0
    THEN LET c == CopyHostToDevice(s, s.position_ - s.buffer_position_,
                                   Staged(s, s.buffer_position_), d)
         IN  IF c.status # "OK" THEN c ELSE [c EXCEPT !.buffer_position_ = 0]
    ELSE [s EXCEPT !.status = "OK"]

\* Write that stages data filling the staging buffer exactly, instead of copying it
Impl_Write_FillsBuffer(s, data, d) ==
    LET nbytes == Len(data)
        r == IF s.buffer_size_ > 0
             THEN IF nbytes + s.buffer_position_ > s.buffer_size_
                  THEN LET f == Impl_Flush(s, d)
                       IN  IF f.status # "OK" THEN f
                           ELSE CopyHostToDevice(f, f.position_, data, d)
                  ELSE [s EXCEPT
                          !.host_buffer_data_ = [i \in DOMAIN s.host_buffer_data_ |->
                              IF i >= s.buffer_position_ /\ i < s.buffer_position_ + nbytes
                              THEN data[i - s.buffer_position_ + 1]
                              ELSE s.host_buffer_data_[i]],
                          !.buffer_position_ = s.buffer_position_ + nbytes,
                          !.status = "OK"]
             ELSE CopyHostToDevice(s, s.position_, data, d)
    IN  IF nbytes = 0 THEN [s EXCEPT !.status = "OK"]
        ELSE IF r.status # "OK" THEN r
        ELSE [r EXCEPT !.position_ = r.position_ + nbytes]

Impl_Write(s, data, d) ==
    LET nbytes == Len(data)
        r == IF s.buffer_size_ > 0
             THEN IF nbytes + s.buffer_position_ >= s.buffer_size_
                  THEN LET f == Impl_Flush(s, d)
                       IN  IF f.status # "OK" THEN f
                           ELSE CopyHostToDevice(f, f.position_, data, d)
                  ELSE [s EXCEPT
                          !.host_buffer_data_ = [i \in DOMAIN s.host_buffer_data_ |->
                              IF i >= s.buffer_position_ /\ i < s.buffer_position_ + nbytes
                              THEN data[i - s.buffer_position_ + 1]
                              ELSE s.host_buffer_data_[i]],
                          !.buffer_position_ = s.buffer_position_ + nbytes,
                          !.status = "OK"]
             ELSE CopyHostToDevice(s, s.position_, data, d)
    IN  IF nbytes = 0 THEN [s EXCEPT !.status = "OK"]
        ELSE IF r.status # "OK" THEN r
        ELSE [r EXCEPT !.position_ = r.position_ + nbytes]

\* the lock_guard is modelled by the callers: a sequential call holds the lock for the
\* whole body, a thread takes it in T_Lock and gives it back when the body returns
Impl_WriteAt(s, position, data, d) ==
    LET k == Impl_Seek(s, position)
    IN  IF k.status # "OK" THEN k ELSE Impl_Write(k, data, d)

\* SetBufferSize that installs the new staging buffer over bytes still staged
Impl_SetBufferSize_KeepStaged(s, buffer_size, d) ==
    IF ~d.alloc THEN [s EXCEPT !.status = "OutOfMemory"]
    ELSE [s EXCEPT !.host_buffer_data_ = AllocateCudaHostBuffer(buffer_size),
                   !.buffer_size_ = buffer_size,
                   !.status = "OK"]

\* SetBufferSize that installs the new staging buffer without flushing the old one
Impl_SetBufferSize_NoFlush(s, buffer_size, d) ==
    IF ~d.alloc THEN [s EXCEPT !.status = "OutOfMemory"]
    ELSE [s EXCEPT !.host_buffer_data_ = AllocateCudaHostBuffer(buffer_size),
                   !.buffer_size_ = buffer_size,
                   !.buffer_position_ = 0,
                   !.status = "OK"]

Impl_SetBufferSize(s, buffer_size, d) ==
    LET f == IF s.buffer_position_ > 0 THEN Impl_Flush(s, d) ELSE [s EXCEPT !.status = "OK"]
    IN  IF f.status # "OK" THEN f
        ELSE IF ~d.alloc THEN [f EXCEPT !.status = "OutOfMemory"]
        ELSE [f EXCEPT !.host_buffer_data_ = AllocateCudaHostBuffer(buffer_size),
                       !.buffer_size_ = buffer_size,
                       !.status = "OK"]

Writer_Flush(s, d) == Impl_Flush(s, d)

Writer_Close(s, d) == Writer_Flush(s, d)

\* Seek that moves the cursor without flushing the staged bytes first
Writer_Seek_NoFlush(s, position, d) == Impl_Seek(s, position)

Writer_Seek(s, position, d) ==
    IF s.buffer_position_ > 0
    THEN LET f == Writer_Flush(s, d)
         IN  IF f.status # "OK" THEN f ELSE Impl_Seek(f, position)
    ELSE Impl_Seek(s, position)

Writer_Write(s, data, d) == Impl_Write(s, data, d)

Writer_WriteAt(s, position, data, d) == Impl_WriteAt(s, position, data, d)

Writer_SetBufferSize(s, buffer_size, d) == Impl_SetBufferSize(s, buffer_size, d)

\* ghost: the device content a caller expects once `data` is written at offset `at`
Overlay(mem, at, data) ==
    [i \in DOMAIN mem |-> IF i >= at /\ i < at + Len(data) THEN data[i - at + 1] ELSE mem[i]]

----------------------------------------------------------------------------
(* CudaBuffer and CudaBufferReader *)

\* CudaBuffer(data, size, context, own_data, is_ipc). state is "live" from construction
\* to destruction; parent is the buffer a slice keeps alive (0: none); ctor_own is a
\* ghost copy of the own_data the constructor was given.
CudaBuffer(data, size, own_data, is_ipc) ==
    [ state |-> "live",
      data_ |-> data,
      size_ |-> size,
      own_data_ |-> own_data,
      is_ipc_ |-> is_ipc,
      parent |-> 0,
      ctor_own |-> own_data ]

\* a slice that takes over its parent's ownership flag
CudaBufferSlice_Inherit(parent, id, offset, size) ==
    [ state |-> "live",
      data_ |-> parent.data_ + offset,
      size_ |-> size,
      own_data_ |-> parent.own_data_,
      is_ipc_ |-> FALSE,
      parent |-> id,
      ctor_own |-> FALSE ]

\* CudaBuffer(parent, offset, size): a view of [offset, offset + size) of buffer `id`
CudaBufferSlice(parent, id, offset, size) ==
    [ state |-> "live",
      data_ |-> parent.data_ + offset,
      size_ |-> size,
      own_data_ |-> FALSE,
      is_ipc_ |-> FALSE,
      parent |-> id,
      ctor_own |-> FALSE ]

\* the release requests a buffer can issue, as the driver and the context see them,
\* with their outcome
IpcCloseCall(b, id, ok) ==
    [op |-> "cuIpcCloseMemHandle", buf |-> id, args |-> <<b.data_>>, ok |-> ok]
FreeCall(b, id, ok) ==
    [op |-> "Free", buf |-> id, args |-> <<b.data_, b.size_>>, ok |-> ok]

\* Close that frees an IPC-imported mapping through the context like a local allocation
CudaBuffer_Close_FreeIpc(b, id, ok) ==
    IF b.own_data_
    THEN [issued |-> <<FreeCall(b, id, ok)>>, status |-> IF ok THEN "OK" ELSE "DriverError"]
    ELSE [issued |-> <<>>, status |-> "OK"]

\* CudaBuffer::Close of buffer `id`: the requests it issues and the status it returns,
\* ok telling whether the driver (or the context) carries the request out
CudaBuffer_Close(b, id, ok) ==
    IF b.own_data_
    THEN IF b.is_ipc_
         THEN [issued |-> <<IpcCloseCall(b, id, ok)>>,
               status |-> IF ok THEN "OK" ELSE "DriverError"]
         ELSE [issued |-> <<FreeCall(b, id, ok)>>,
               status |-> IF ok THEN "OK" ELSE "DriverError"]
    ELSE [issued |-> <<>>, status |-> "OK"]

\* ExportForIpc that hands out the handle and keeps the ownership flag
CudaBuffer_ExportForIpc_KeepOwn(b, ok) ==
    IF b.is_ipc_ THEN [buf |-> b, status |-> "Invalid"]
    ELSE IF ~ok THEN [buf |-> b, status |-> "DriverError"]
    ELSE [buf |-> b, status |-> "OK"]

\* CudaBuffer::ExportForIpc: the buffer afterwards and the status returned, ok telling
\* whether context_->ExportIpcBuffer succeeds
CudaBuffer_ExportForIpc(b, ok) ==
    IF b.is_ipc_ THEN [buf |-> b, status |-> "Invalid"]
    ELSE IF ~ok THEN [buf |-> b, status |-> "DriverError"]
    ELSE [buf |-> [b EXCEPT !.own_data_ = FALSE], status |-> "OK"]

Min(a, b) == IF a < b THEN a ELSE b

\* CudaContext::CopyDeviceToHost(out, src, nbytes) over the device memory mem: the bytes
\* that reach the caller's host buffer (none when the driver fails; an address outside
\* the memory reads as Uninit) and the status
CopyDeviceToHost(mem, src, nbytes, ok) ==
    IF ok
    THEN [out |-> [i \in 1..nbytes |-> IF (src + i - 1) \in DOMAIN mem
                                       THEN mem[src + i - 1] ELSE Uninit],
          status |-> "OK"]
    ELSE [out |-> <<>>, status |-> "DriverError"]

\* a copying Read that asks the driver for all nbytes, whatever is left in the buffer
CudaBufferReader_Read_NoClamp(r, buffer, mem, nbytes, ok) ==
    LET c == CopyDeviceToHost(mem, buffer.data_ + r.position_, nbytes, ok)
    IN  [bytes_read |-> nbytes,
         copies |-> <<[src |-> buffer.data_ + r.position_, nbytes |-> nbytes]>>,
         out |-> c.out,
         status |-> c.status,
         reader |-> IF c.status = "OK" THEN [r EXCEPT !.position_ = r.position_ + nbytes]
                    ELSE r]

\* CudaBufferReader::Read(nbytes, int64_t* bytes_read, void* buffer) of the reader over
\* `buffer` (whose data_ and size_ the reader was built with): what is reported in
\* *bytes_read, the device-to-host copies asked of the context, the bytes that reach the
\* caller's buffer, the status, and the reader afterwards
CudaBufferReader_Read(r, buffer, mem, nbytes, ok) ==
    LET n == Min(nbytes, buffer.size_ - r.position_)
        c == CopyDeviceToHost(mem, buffer.data_ + r.position_, n, ok)
    IN  [bytes_read |-> n,
         copies |-> <<[src |-> buffer.data_ + r.position_, nbytes |-> n]>>,
         out |-> c.out,
         status |-> c.status,
         reader |-> IF c.status = "OK" THEN [r EXCEPT !.position_ = r.position_ + n]
                    ELSE r]

\* a zero-copy Read that hands out the view and leaves the cursor where it was
CudaBufferReader_ReadSlice_NoAdvance(r, buffer, id, nbytes) ==
    LET size == Min(nbytes, buffer.size_ - r.position_)
    IN  [out |-> CudaBufferSlice(buffer, id, r.position_, size),
         reader |-> r]

\* CudaBufferReader::Read(nbytes, std::shared_ptr<Buffer>* out) over buffer `id`:
\* the slice returned and the reader afterwards
CudaBufferReader_ReadSlice(r, buffer, id, nbytes) ==
    LET size == Min(nbytes, buffer.size_ - r.position_)
    IN  [out |-> CudaBufferSlice(buffer, id, r.position_, size),
         reader |-> [r EXCEPT !.position_ = r.position_ + size]]

----------------------------------------------------------------------------
(* CudaIpcMemHandle *)

kHandleSize == 2    \* sizeof(CUipcMemHandle), scaled down

\* memcpy(dst, src, n): the first n bytes of dst become those of src
Memcpy(dst, src, n) == [i \in DOMAIN dst |-> IF i <= n THEN src[i] ELSE dst[i]]

\* CudaIpcMemHandleImpl(handle): the token is copied out of the caller's memory
CudaIpcMemHandleImpl(handle) ==
    [built |-> TRUE,
     ipc_handle |-> Memcpy([i \in 1..kHandleSize |-> Uninit], handle, kHandleSize)]

\* no CudaIpcMemHandle object
NoHandle == [built |-> FALSE, ipc_handle |-> <<>>]

\* CudaIpcMemHandle::FromBuffer(opaque_handle, &handle)
CudaIpcMemHandle_FromBuffer(opaque_handle) ==
    [handle |-> CudaIpcMemHandleImpl(opaque_handle), status |-> "OK"]

\* AllocateBuffer(pool, n, &buffer): n bytes of fresh host memory
AllocateBuffer(n) == [i \in 1..n |-> Uninit]

\* Serialize that leaves the last byte of the token out
CudaIpcMemHandle_Serialize_Short(h, out, ok) ==
    IF ~ok THEN [out |-> out, status |-> "OutOfMemory"]
    ELSE [out |-> Memcpy(AllocateBuffer(kHandleSize), h.ipc_handle, kHandleSize - 1),
          status |-> "OK"]

\* CudaIpcMemHandle::Serialize(pool, &out), ok telling whether the pool can allocate;
\* *out is assigned only on success
CudaIpcMemHandle_Serialize(h, out, ok) ==
    IF ~ok THEN [out |-> out, status |-> "OutOfMemory"]
    ELSE [out |-> Memcpy(AllocateBuffer(kHandleSize), h.ipc_handle, kHandleSize),
          status |-> "OK"]

----------------------------------------------------------------------------
(* Values of the variables a scenario does not use *)

NoWriter == CudaBufferWriterImpl(0)

ThreadsIdle ==
    /\ pc = <<>>
    /\ lock_ = 0
    /\ req = <<>>

BuffersIdle ==
    /\ bufs = <<>>
    /\ calls = <<>>
    /\ released = <<>>
    /\ rd = [alive |-> FALSE, position_ |-> 0]
    /\ exported = {}

HandlesIdle == ipc = [buffer |-> <<>>, handle |-> NoHandle, source |-> <<>>, origin |-> NoHandle]

Call(op, arg, status) == [op |-> op, arg |-> arg, status |-> status]

----------------------------------------------------------------------------
(* One writer driven by one thread: any sequence of the public calls *)

Positions == (0 - 1)..MaxSize

InitWriter ==
    /\ \E size \in {0, MaxSize} :
          /\ w = CudaBufferWriterImpl(size)
          /\ logical = [i \in 0..(size - 1) |-> 0]
    /\ u = NoWriter
    /\ last = Call("new", 0, "OK")
    /\ HandlesIdle
    /\ phase = "run"
    /\ ThreadsIdle
    /\ BuffersIdle

\* the caller's view after a call that wrote `data` at offset `at`
Written(s, at, data) == IF s.status = "OK" THEN Overlay(logical, at, data) ELSE logical

W_SetBufferSize(D) ==
    /\ ~w.overflow
    /\ \E n \in 0..MaxCap, d \in D :
          /\ w' = Writer_SetBufferSize(Enter(w), n, d)
          /\ last' = Call("SetBufferSize", n, w'.status)
    /\ UNCHANGED <<u, logical, phase, threadVars, bufferVars, ipc>>

W_Write(D) ==
    /\ ~w.overflow
    /\ \E data \in Datas, d \in D :
          /\ w' = Writer_Write(Enter(w), data, d)
          /\ logical' = Written(w', w.position_, data)
          /\ last' = Call("Write", Len(data), w'.status)
    /\ UNCHANGED <<u, phase, threadVars, bufferVars, ipc>>

W_Seek(D) ==
    /\ ~w.overflow
    /\ \E p \in Positions, d \in D :
          /\ w' = Writer_Seek(Enter(w), p, d)
          /\ last' = Call("Seek", p, w'.status)
    /\ UNCHANGED <<u, logical, phase, threadVars, bufferVars, ipc>>

W_WriteAt(D) ==
    /\ ~w.overflow
    /\ \E p \in Positions, data \in Datas, d \in D :
          /\ w' = Writer_WriteAt(Enter(w), p, data, d)
          /\ logical' = Written(w', p, data)
          /\ last' = Call("WriteAt", p, w'.status)
    /\ UNCHANGED <<u, phase, threadVars, bufferVars, ipc>>

W_Flush(D) ==
    /\ ~w.overflow
    /\ \E d \in D :
          /\ w' = Writer_Flush(Enter(w), d)
          /\ last' = Call("Flush", 0, w'.status)
    /\ UNCHANGED <<u, logical, phase, threadVars, bufferVars, ipc>>

W_Close(D) ==
    /\ ~w.overflow
    /\ \E d \in D :
          /\ w' = Writer_Close(Enter(w), d)
          /\ last' = Call("Close", 0, w'.status)
    /\ UNCHANGED <<u, logical, phase, threadVars, bufferVars, ipc>>

\* the stream interface: SetBufferSize, Write, Seek, Flush, Close
NextWriter ==
    \/ W_SetBufferSize(Reliable)
    \/ W_Write(Reliable)
    \/ W_Seek(Reliable)
    \/ W_Flush(Reliable)
    \/ W_Close(Reliable)

SpecWriter == InitWriter /\ [][NextWriter]_vars

\* the stream interface together with the positioned write, still from one thread
NextWriterAt ==
    \/ NextWriter
    \/ W_WriteAt(Reliable)

SpecWriterAt == InitWriter /\ [][NextWriterAt]_vars

----------------------------------------------------------------------------
(* The life of a device buffer, its slices and a reader over it *)

MaxBufs == 2        \* buffer objects ever constructed: buffer 1 and its slices
MaxCalls == 2       \* release requests of one buffer that are carried out

BufIds == 1..MaxBufs

\* an object not constructed yet, and one that was destroyed (its fields are gone)
Unbuilt == [CudaBuffer(0, 0, FALSE, FALSE) EXCEPT !.state = "none"]
Destroyed == [CudaBuffer(0, 0, FALSE, FALSE) EXCEPT !.state = "dead"]

WritersIdle ==
    /\ w = NoWriter
    /\ u = NoWriter
    /\ logical = <<>>
    /\ phase = "run"

\* buffer 1 is built by the five-argument constructor with any flags, at device
\* address 0 with MaxLen bytes (what one Write can fill), and a reader is attached to it
InitBuffer ==
    /\ \E own_data \in BOOLEAN, is_ipc \in BOOLEAN :
          bufs = [b \in BufIds |-> IF b = 1 THEN CudaBuffer(0, MaxLen, own_data, is_ipc)
                                   ELSE Unbuilt]
    /\ calls = <<>>
    /\ released = [b \in BufIds |-> 0]
    /\ rd = [alive |-> TRUE, position_ |-> 0]
    /\ exported = {}
    /\ last = Call("new", 0, "OK")
    /\ HandlesIdle
    /\ WritersIdle
    /\ ThreadsIdle

Live(b) == bufs[b].state = "live"
Fresh == {b \in BufIds : bufs[b].state = "none"}
NextId == CHOOSE b \in Fresh : \A c \in Fresh : b <= c
\* buffer 1 was built by the five-argument constructor, every other one as a slice
IsSlice(b) == b # 1

\* a call on buffer b, with the object as the call found it
BufferCall(op, b, this, status) == [op |-> op, arg |-> b, status |-> status, this |-> this]

\* the count of carried-out requests after a call that issued `issued`
Carried(issued) ==
    [b \in BufIds |-> released[b] + Cardinality({i \in DOMAIN issued :
                                                    issued[i].buf = b /\ issued[i].ok})]

\* std::make_shared<CudaBuffer>(parent, offset, size) by a caller
B_Slice ==
    /\ Fresh # {}
    /\ \E p \in BufIds :
          /\ Live(p)
          /\ \E offset \in 0..bufs[p].size_ :
                \E size \in 0..(bufs[p].size_ - offset) :
                   bufs' = [bufs EXCEPT ![NextId] = CudaBufferSlice(bufs[p], p, offset, size)]
          /\ last' = Call("Slice", NextId, "OK")
    /\ calls' = <<>>
    /\ UNCHANGED <<released, rd, exported, w, u, logical, phase, threadVars, ipc>>

\* the reader's zero-copy Read
B_ReadSlice ==
    /\ Fresh # {}
    /\ rd.alive
    /\ \E nbytes \in 0..(MaxLen + 1) :
          LET r == CudaBufferReader_ReadSlice(rd, bufs[1], 1, nbytes)
          IN  /\ bufs' = [bufs EXCEPT ![NextId] = r.out]
              /\ rd' = r.reader
              /\ last' = Call("Read", NextId, "OK")
    /\ calls' = <<>>
    /\ UNCHANGED <<released, exported, w, u, logical, phase, threadVars, ipc>>

\* an explicit Close
B_Close ==
    /\ \E b \in BufIds, ok \in BOOLEAN :
          /\ Live(b)
          /\ released[b] < MaxCalls
          /\ LET c == CudaBuffer_Close(bufs[b], b, ok)
             IN  /\ calls' = c.issued
                 /\ released' = Carried(c.issued)
                 /\ last' = BufferCall("Close", b, bufs[b], c.status)
    /\ UNCHANGED <<bufs, rd, exported, w, u, logical, phase, threadVars, ipc>>

\* ~CudaBuffer, run when the last reference goes: a slice holds one to its parent, the
\* reader holds one to buffer 1
B_Destroy ==
    /\ \E b \in BufIds, ok \in BOOLEAN :
          /\ Live(b)
          /\ \A c \in BufIds : Live(c) => bufs[c].parent # b
          /\ b = 1 => ~rd.alive
          /\ LET c == CudaBuffer_Close(bufs[b], b, ok)
             IN  /\ calls' = c.issued
                 /\ released' = Carried(c.issued)
                 /\ last' = BufferCall("Destroy", b, bufs[b], c.status)
          /\ bufs' = [bufs EXCEPT ![b] = Destroyed]
    /\ UNCHANGED <<rd, exported, w, u, logical, phase, threadVars, ipc>>

\* ~CudaBufferReader
B_DestroyReader ==
    /\ rd.alive
    /\ rd' = [rd EXCEPT !.alive = FALSE]
    /\ last' = Call("DestroyReader", 0, "OK")
    /\ calls' = <<>>
    /\ UNCHANGED <<bufs, released, exported, w, u, logical, phase, threadVars, ipc>>

B_ExportForIpc ==
    /\ \E b \in BufIds, ok \in BOOLEAN :
          /\ Live(b)
          /\ LET e == CudaBuffer_ExportForIpc(bufs[b], ok)
             IN  /\ bufs' = [bufs EXCEPT ![b] = e.buf]
                 /\ exported' = IF e.status = "OK" THEN exported \cup {b} ELSE exported
                 /\ last' = BufferCall("ExportForIpc", b, bufs[b], e.status)
    /\ calls' = <<>>
    /\ UNCHANGED <<released, rd, w, u, logical, phase, threadVars, ipc>>

NextBuffer ==
    \/ B_Slice
    \/ B_ReadSlice
    \/ B_Close
    \/ B_Destroy
    \/ B_DestroyReader
    \/ B_ExportForIpc

SpecBuffer == InitBuffer /\ [][NextBuffer]_vars

----------------------------------------------------------------------------
(* Claims about device buffers *)

Closes == {"Close", "Destroy"}

\* the release requests the last call issued, without their outcome
Asked == [i \in DOMAIN calls |-> [op |-> calls[i].op, buf |-> calls[i].buf,
                                   args |-> calls[i].args]]

\* C3. ExportForIpc on a buffer on which an ExportForIpc has already succeeded does
\* not succeed again (it is to fail as "already exported").
C3_SecondExportFails ==
    [][ (last'.op = "ExportForIpc" /\ last'.arg \in exported) => last'.status # "OK" ]_vars

\* C4. Close is idempotent in effect: whatever number of Close calls a buffer gets,
\* explicit or at destruction, at most one release request of it reaches the driver
\* (counting the requests that were carried out, so that a retry after a failure is
\* not held against the code).
C4_AtMostOneRelease ==
    \A b \in BufIds : released[b] <= 1

\* C5. No double free through slices: a Close or destruction of a slice, whether made
\* by the slicing constructor or by the reader's zero-copy Read, issues no release
\* request; a Close of the owning (not imported) parent issues exactly one Free, with the
\* parent's address and recorded size -- also when all its slices are gone.
C5_NoDoubleFreeThroughSlices ==
    last.op \in Closes =>
        LET b == last.arg
            this == last.this
        IN  /\ IsSlice(b) => Asked = <<>>
            /\ (~IsSlice(b) /\ this.own_data_ /\ ~this.is_ipc_) =>
                  Asked = <<[op |-> "Free", buf |-> b, args |-> <<this.data_, this.size_>>]>>

\* the parent's slice has been destroyed without a request, then the parent was closed
\* and issued its one Free
C5_Witness ==
    /\ last.op = "Close"
    /\ last.arg = 1
    /\ \E b \in BufIds : IsSlice(b) /\ bufs[b].state = "dead" /\ released[b] = 0
    /\ \A b \in BufIds : IsSlice(b) => ~Live(b)
    /\ bufs[1].own_data_ /\ ~bufs[1].is_ipc_
    /\ calls = <<[op |-> "Free", buf |-> 1, args |-> <<0, MaxLen>>, ok |-> TRUE]>>
    /\ released[1] = 1

\* C6. After a successful ExportForIpc on a buffer built owning and not imported, no
\* Close or destruction of it issues a request; an ExportForIpc that returns an error
\* leaves the ownership flag as it was.
C6_ExportedNeverFreed ==
    /\ (last.op \in Closes /\ last.arg \in exported
           /\ last.this.ctor_own /\ ~last.this.is_ipc_)
        => Asked = <<>>
    /\ (last.op = "ExportForIpc" /\ last.status # "OK")
        => bufs[last.arg].own_data_ = last.this.own_data_

\* buffer 1, built owning and not imported, was exported and then closed: no request
C6_Witness ==
    /\ last.op = "Close"
    /\ last.arg = 1
    /\ 1 \in exported
    /\ bufs[1].ctor_own /\ ~bufs[1].is_ipc_
    /\ ~bufs[1].own_data_
    /\ calls = <<>>
    /\ released[1] = 0

\* C7. Close dispatches on the ownership state: owning and imported, it closes the IPC
\* mapping and asks no Free; owning and not imported, it asks the context to Free the
\* buffer's address with its recorded size; not owning, it asks nothing and returns OK.
C7_CloseDispatch ==
    last.op \in Closes =>
        LET b == last.arg
            this == last.this
        IN  IF this.own_data_ /\ this.is_ipc_
            THEN Asked = <<[op |-> "cuIpcCloseMemHandle", buf |-> b, args |-> <<this.data_>>]>>
            ELSE IF this.own_data_
            THEN Asked = <<[op |-> "Free", buf |-> b, args |-> <<this.data_, this.size_>>]>>
            ELSE Asked = <<>> /\ last.status = "OK"

\* an imported, owning buffer was closed: one IPC close and no Free
C7_Witness ==
    /\ last.op = "Close"
    /\ last.arg = 1
    /\ last.status = "OK"
    /\ bufs[1].own_data_ /\ bufs[1].is_ipc_
    /\ calls = <<[op |-> "cuIpcCloseMemHandle", buf |-> 1, args |-> <<0>>, ok |-> TRUE]>>

----------------------------------------------------------------------------
(* Claims about the writer's stream interface *)

\* C8. Flush-before-seek: once Seek(p) has returned, accepted or rejected as out of
\* range, no byte is staged any more and the device holds every byte written so far at
\* the offset it was written to; in particular data A that a Write had only staged
\* (|A| < capacity) is on the device at the range it was written to.
C8_FlushBeforeSeek ==
    last.op = "Seek" =>
        /\ w.buffer_position_ = 0
        /\ w.dev = logical

\* a Seek to a rejected position that found staged bytes and copied them to the device
C8_Witness ==
    /\ last.op = "Seek"
    /\ last.status = "IOError"
    /\ Len(w.copies) = 1
    /\ w.copies[1].nbytes > 0
    /\ w.buffer_size_ > w.copies[1].nbytes
    /\ ~w.overflow
    /\ w.dev = logical

\* C9. Seek(p) returns OK and sets the write position to p exactly when
\* 0 <= p < size; for any other p (p < 0, p >= size, any p on an empty buffer) it
\* returns an error and leaves the write position where it was.
C9_SeekBounds ==
    [][ last'.op = "Seek" =>
          IF 0 <= last'.arg /\ last'.arg < w.size_
          THEN w'.status = "OK" /\ w'.position_ = last'.arg
          ELSE w'.status # "OK" /\ w'.position_ = w.position_ ]_vars

\* Seek(size) on a non-empty buffer was rejected with the cursor left inside the buffer
C9_Witness ==
    /\ last.op = "Seek"
    /\ last.arg = w.size_
    /\ last.status = "IOError"
    /\ w.position_ > 0
    /\ w.position_ < w.size_

\* C10. Writer Close flushes: after a Close that returned OK (all copies having stayed
\* inside the buffer) no byte is staged and every byte written through the writer,
\* by Write or by WriteAt, is on the device at the offset it was written to.
C10_CloseFlushesAll ==
    (last.op = "Close" /\ last.status = "OK" /\ ~w.overflow) =>
        /\ w.buffer_position_ = 0
        /\ w.dev = logical

----------------------------------------------------------------------------
(* Two writers over equal device buffers, given the same Write calls: w after     *)
(* SetBufferSize(C) with C >= 1, u left unbuffered; then both are closed.         *)

InitEquiv ==
    /\ \E size \in 0..MaxSize :
          /\ w = CudaBufferWriterImpl(size)
          /\ u = CudaBufferWriterImpl(size)
          /\ logical = [i \in 0..(size - 1) |-> 0]
    /\ last = Call("new", 0, "OK")
    /\ HandlesIdle
    /\ phase = "config"
    /\ ThreadsIdle
    /\ BuffersIdle

E_SetBufferSize ==
    /\ phase = "config"
    /\ \E n \in 1..MaxCap, d \in Reliable :
          /\ w' = Writer_SetBufferSize(Enter(w), n, d)
          /\ last' = Call("SetBufferSize", n, w'.status)
    /\ phase' = "run"
    /\ UNCHANGED <<u, logical, threadVars, bufferVars, ipc>>

E_Write ==
    /\ phase = "run"
    /\ ~w.overflow /\ ~u.overflow
    /\ \E data \in Datas, d \in Reliable :
          /\ w' = Writer_Write(Enter(w), data, d)
          /\ u' = Writer_Write(Enter(u), data, d)
          /\ last' = Call("Write", Len(data), w'.status)
    /\ UNCHANGED <<logical, phase, threadVars, bufferVars, ipc>>

E_Close ==
    /\ phase = "run"
    /\ ~w.overflow /\ ~u.overflow
    /\ \E d \in Reliable :
          /\ w' = Writer_Close(Enter(w), d)
          /\ u' = Writer_Close(Enter(u), d)
          /\ last' = Call("Close", 0, w'.status)
    /\ phase' = "closed"
    /\ UNCHANGED <<logical, threadVars, bufferVars, ipc>>

NextEquiv ==
    \/ E_SetBufferSize
    \/ E_Write
    \/ E_Close

SpecEquiv == InitEquiv /\ [][NextEquiv]_vars

\* C1. Writer buffering equivalence: after any sequence of Write calls that fits in the
\* device buffer, followed by Close, the device bytes and the write position of the
\* writer configured with SetBufferSize(C), C >= 1, equal those of the unbuffered one.
C1_BufferingEquivalence ==
    (phase = "closed" /\ ~w.overflow /\ ~u.overflow) =>
        /\ w.dev = u.dev
        /\ w.position_ = u.position_

\* the buffer was filled to its end and the buffered writer's Close flushed staged bytes
C1_Witness ==
    /\ phase = "closed"
    /\ ~w.overflow /\ ~u.overflow
    /\ Len(w.copies) = 1
    /\ Len(u.copies) = 0
    /\ w.position_ = w.size_
    /\ \A i \in DOMAIN w.dev : w.dev[i] # 0
    /\ w.dev = u.dev
    /\ w.position_ = u.position_

----------------------------------------------------------------------------
(* Threads calling WriteAt on one shared writer, each with its own range *)

NThreads == 2

Threads == 1..NThreads

\* a WriteAt request whose range [position, position + Len(data)) is not empty and
\* lies in the buffer
Requests == {r \in [position : 0..(MaxSize - 1), data : Datas] :
                Len(r.data) > 0 /\ r.position + Len(r.data) <= MaxSize}

Disjoint(r1, r2) ==
    \/ r1.position + Len(r1.data) <= r2.position
    \/ r2.position + Len(r2.data) <= r1.position

InitConc ==
    /\ w = CudaBufferWriterImpl(MaxSize)
    /\ u = NoWriter
    /\ logical = [i \in 0..(MaxSize - 1) |-> 0]
    /\ last = Call("new", 0, "OK")
    /\ HandlesIdle
    /\ phase = "config"
    /\ pc = [t \in Threads |-> "start"]
    /\ lock_ = 0
    /\ req \in {f \in [Threads -> Requests] :
                  \A t1, t2 \in Threads : t1 # t2 => Disjoint(f[t1], f[t2])}
    /\ BuffersIdle

\* the writer is configured (0: left unbuffered) before the threads start
C_SetBufferSize ==
    /\ phase = "config"
    /\ \E n \in 0..MaxCap, d \in Reliable :
          /\ w' = Writer_SetBufferSize(Enter(w), n, d)
          /\ last' = Call("SetBufferSize", n, w'.status)
    /\ phase' = "run"
    /\ UNCHANGED <<u, logical, threadVars, bufferVars, ipc>>

\* a WriteAt that enters without waiting for the lock
T_Lock_NoWait(t) ==
    /\ phase = "run"
    /\ ~w.overflow
    /\ pc[t] = "start"
    /\ lock_' = t
    /\ pc' = [pc EXCEPT ![t] = "seek"]
    /\ w' = Enter(w)
    /\ UNCHANGED <<u, logical, last, phase, req, bufferVars, ipc>>

\* WriteAt, line 218: std::lock_guard<std::mutex> guard(lock_)
T_Lock(t) ==
    /\ phase = "run"
    /\ ~w.overflow
    /\ pc[t] = "start"
    /\ lock_ = 0
    /\ lock_' = t
    /\ pc' = [pc EXCEPT ![t] = "seek"]
    /\ w' = Enter(w)
    /\ UNCHANGED <<u, logical, last, phase, req, bufferVars, ipc>>

\* WriteAt, line 219: RETURN_NOT_OK(Seek(position)); an early return releases the lock
T_Seek(t) ==
    /\ pc[t] = "seek"
    /\ ~w.overflow
    /\ w' = Impl_Seek(w, req[t].position)
    /\ IF w'.status = "OK"
       THEN /\ pc' = [pc EXCEPT ![t] = "write"]
            /\ UNCHANGED <<lock_, last>>
       ELSE /\ pc' = [pc EXCEPT ![t] = "done"]
            /\ lock_' = 0
            /\ last' = Call("WriteAt", req[t].position, w'.status)
    /\ UNCHANGED <<u, logical, phase, req, bufferVars, ipc>>

\* WriteAt, line 220: return Write(data, nbytes); the guard releases the lock
T_Write(t) ==
    /\ pc[t] = "write"
    /\ ~w.overflow
    /\ \E d \in Reliable : w' = Impl_Write(w, req[t].data, d)
    /\ logical' = Written(w', req[t].position, req[t].data)
    /\ pc' = [pc EXCEPT ![t] = "done"]
    /\ lock_' = 0
    /\ last' = Call("WriteAt", req[t].position, w'.status)
    /\ UNCHANGED <<u, phase, req, bufferVars, ipc>>

\* all threads have returned; the writer is closed
C_Close ==
    /\ phase = "run"
    /\ ~w.overflow
    /\ \A t \in Threads : pc[t] = "done"
    /\ \E d \in Reliable : w' = Writer_Close(Enter(w), d)
    /\ last' = Call("Close", 0, w'.status)
    /\ phase' = "closed"
    /\ UNCHANGED <<u, logical, threadVars, bufferVars, ipc>>

NextConc ==
    \/ C_SetBufferSize
    \/ \E t \in Threads : T_Lock(t)
    \/ \E t \in Threads : T_Seek(t)
    \/ \E t \in Threads : T_Write(t)
    \/ C_Close

SpecConc == InitConc /\ [][NextConc]_vars

\* the device buffer the requests describe: data_i at [p_i, p_i + n_i), 0 elsewhere
RECURSIVE UnionOfWrites(_, _)
UnionOfWrites(mem, n) ==
    IF n = 0 THEN mem
    ELSE UnionOfWrites(Overlay(mem, req[n].position, req[n].data), n - 1)

\* C2. Concurrent WriteAt: once every thread's WriteAt over its own range has returned
\* and the writer is closed, the device buffer holds each thread's data at its range and
\* is unchanged elsewhere, for unbuffered and buffered writers alike (stated of the
\* runs in which every copy stayed inside the buffer).
C2_ConcurrentWriteAt ==
    (phase = "closed" /\ ~w.overflow) =>
        w.dev = UnionOfWrites([i \in 0..(MaxSize - 1) |-> 0], NThreads)

----------------------------------------------------------------------------
(* A reader over a device buffer: copying and zero-copy Reads, in any order *)

\* a Read call: the count asked for, the cursor the call found, whether the driver
\* carried the copy out, and what the call gave back
ReaderCall(op, nbytes, cursor, ok, status, bytes_read, out, copies) ==
    [op |-> op, arg |-> nbytes, status |-> status, cursor |-> cursor, driver |-> ok,
     bytes_read |-> bytes_read, out |-> out, copies |-> copies]

\* buffer 1 lies at device address 0 or 1 and has up to MaxSize bytes; logical holds
\* the content of the device memory up to the end of the buffer
InitReader ==
    /\ \E data \in 0..1, size \in 0..MaxSize :
          /\ bufs = <<CudaBuffer(data, size, TRUE, FALSE)>>
          /\ logical \in [0..(data + size - 1) -> Bytes]
    /\ rd = [alive |-> TRUE, position_ |-> 0]
    /\ calls = <<>>
    /\ released = <<0>>
    /\ exported = {}
    /\ last = Call("new", 0, "OK")
    /\ HandlesIdle
    /\ w = NoWriter
    /\ u = NoWriter
    /\ phase = "run"
    /\ ThreadsIdle

\* Read(nbytes, &bytes_read, buffer)
R_Read ==
    /\ \E nbytes \in 0..(MaxSize + 1), ok \in BOOLEAN :
          LET r == CudaBufferReader_Read(rd, bufs[1], logical, nbytes, ok)
          IN  /\ rd' = r.reader
              /\ last' = ReaderCall("Read", nbytes, rd.position_, ok, r.status,
                                    r.bytes_read, r.out, r.copies)
    /\ UNCHANGED <<bufs, calls, released, exported, w, u, logical, phase, threadVars, ipc>>

\* Read(nbytes, &out): the view is handed to the caller
R_ReadSlice ==
    /\ \E nbytes \in 0..(MaxSize + 1) :
          LET r == CudaBufferReader_ReadSlice(rd, bufs[1], 1, nbytes)
          IN  /\ rd' = r.reader
              /\ last' = ReaderCall("ReadSlice", nbytes, rd.position_, TRUE, "OK",
                                    0, r.out, <<>>)
    /\ UNCHANGED <<bufs, calls, released, exported, w, u, logical, phase, threadVars, ipc>>

NextReader ==
    \/ R_Read
    \/ R_ReadSlice

SpecReader == InitReader /\ [][NextReader]_vars

\* the bytes of buffer 1 at offsets [from, from + n)
BufferBytes(from, n) == [i \in 1..n |-> logical[bufs[1].data_ + from + i - 1]]

\* C11. The copying Read clamps at the end of the buffer: Read(n), n >= 0, reports
\* min(n, size - cursor) bytes and asks the driver for exactly that range starting at
\* the cursor; a short read is no error (the status is OK whenever the driver carried
\* the copy out), the caller then holds those bytes and the cursor has advanced by that
\* count; the cursor stays within 0..size.
C11_ReadClamps ==
    /\ 0 <= rd.position_ /\ rd.position_ <= bufs[1].size_
    /\ last.op = "Read" =>
          LET n == Min(last.arg, bufs[1].size_ - last.cursor)
          IN  /\ last.bytes_read = n
              /\ last.copies = <<[src |-> bufs[1].data_ + last.cursor, nbytes |-> n]>>
              /\ last.status = "OK" <=> last.driver
              /\ last.status = "OK" =>
                    /\ last.out = BufferBytes(last.cursor, n)
                    /\ rd.position_ = last.cursor + n

\* a Read from inside the buffer that asked for more than was left and got the rest
C11_Witness ==
    /\ last.op = "Read"
    /\ last.status = "OK"
    /\ last.cursor > 0
    /\ last.bytes_read > 0
    /\ last.bytes_read < last.arg
    /\ rd.position_ = bufs[1].size_
    /\ last.out = BufferBytes(last.cursor, last.bytes_read)

\* C12. The zero-copy Read(n) returns a view that owns nothing over exactly
\* [cursor, cursor + min(n, size - cursor)) of the parent, asks no device-to-host copy
\* and advances the cursor by the length of the view.
C12_ReadSliceView ==
    last.op = "ReadSlice" =>
        LET n == Min(last.arg, bufs[1].size_ - last.cursor)
        IN  /\ last.status = "OK"
            /\ last.out.state = "live"
            /\ ~last.out.own_data_
            /\ ~last.out.is_ipc_
            /\ last.out.parent = 1
            /\ last.out.data_ = bufs[1].data_ + last.cursor
            /\ last.out.size_ = n
            /\ last.copies = <<>>
            /\ rd.position_ = last.cursor + last.out.size_

\* a zero-copy Read from inside the buffer, clamped to what was left
C12_Witness ==
    /\ last.op = "ReadSlice"
    /\ last.cursor > 0
    /\ last.out.size_ > 0
    /\ last.out.size_ < last.arg
    /\ last.out.data_ = bufs[1].data_ + last.cursor
    /\ ~last.out.own_data_
    /\ rd.position_ = bufs[1].size_

----------------------------------------------------------------------------
(* IPC handles passed between processes as bytes *)

\* host memory holding a token to deserialize: at least kHandleSize bytes
Tokens == UNION {[1..n -> Bytes] : n \in kHandleSize..(kHandleSize + 1)}

\* ipc.buffer is the serialized form at hand and ipc.handle the handle object at hand;
\* ghosts: ipc.source is the memory the handle was built from, ipc.origin the handle
\* the buffer was serialized from (none for bytes that arrived from elsewhere)
InitHandle ==
    /\ \E t \in Tokens :
          ipc = [buffer |-> t, handle |-> NoHandle, source |-> <<>>, origin |-> NoHandle]
    /\ last = Call("new", 0, "OK")
    /\ w = NoWriter
    /\ u = NoWriter
    /\ logical = <<>>
    /\ phase = "run"
    /\ ThreadsIdle
    /\ BuffersIdle

\* bytes arrive from another process
H_Receive ==
    /\ \E t \in Tokens :
          ipc' = [ipc EXCEPT !.buffer = t, !.origin = NoHandle]
    /\ last' = Call("Receive", 0, "OK")
    /\ UNCHANGED <<w, u, logical, phase, threadVars, bufferVars>>

H_FromBuffer ==
    /\ LET r == CudaIpcMemHandle_FromBuffer(ipc.buffer)
       IN  /\ ipc' = [ipc EXCEPT !.handle = r.handle, !.source = ipc.buffer]
           /\ last' = Call("FromBuffer", 0, r.status)
    /\ UNCHANGED <<w, u, logical, phase, threadVars, bufferVars>>

H_Serialize ==
    /\ ipc.handle.built
    /\ \E ok \in BOOLEAN :
          LET r == CudaIpcMemHandle_Serialize(ipc.handle, ipc.buffer, ok)
          IN  /\ ipc' = [ipc EXCEPT !.buffer = r.out,
                                    !.origin = IF r.status = "OK" THEN ipc.handle
                                               ELSE ipc.origin]
              /\ last' = Call("Serialize", 0, r.status)
    /\ UNCHANGED <<w, u, logical, phase, threadVars, bufferVars>>

NextHandle ==
    \/ H_Receive
    \/ H_FromBuffer
    \/ H_Serialize

SpecHandle == InitHandle /\ [][NextHandle]_vars

\* C13. IPC handle serialization round-trips byte for byte: Serialize of the handle
\* built from a token t of the handle width gives a buffer of exactly the handle width
\* whose bytes are t, and the handle built from Serialize(h) holds the token of h.
C13_HandleRoundTrip ==
    /\ (last.op = "Serialize" /\ last.status = "OK") =>
          /\ Len(ipc.buffer) = kHandleSize
          /\ Len(ipc.source) = kHandleSize => ipc.buffer = ipc.source
    /\ (last.op = "FromBuffer" /\ ipc.origin.built) =>
          ipc.handle.ipc_handle = ipc.origin.ipc_handle

\* a token of two different bytes went through FromBuffer, Serialize and FromBuffer
C13_Witness ==
    /\ last.op = "FromBuffer"
    /\ ipc.origin.built
    /\ Len(ipc.buffer) = kHandleSize
    /\ ipc.buffer[1] # ipc.buffer[kHandleSize]
    /\ ipc.handle.ipc_handle = ipc.buffer
    /\ ipc.handle.ipc_handle = ipc.origin.ipc_handle

----------------------------------------------------------------------------
(* Claims about the writer's staging *)

\* C14. Staged bytes are committed before the cursor moves: in every state reached by
\* SetBufferSize, Write, Seek, WriteAt, Flush and Close (all copies having stayed inside
\* the buffer), 0 <= stagedBytes <= position and the staged bytes are the bytes
\* logically written to [position - stagedBytes, position), so that a flush puts each
\* staged byte at the offset it was written to -- also after a WriteAt that found
\* bytes staged.
C14_StagedEndAtCursor ==
    ~w.overflow =>
        /\ 0 <= w.buffer_position_
        /\ w.buffer_position_ <= w.position_
        /\ \A i \in 0..(w.buffer_position_ - 1) :
              LET at == w.position_ - w.buffer_position_ + i
              IN  at \in DOMAIN logical => w.host_buffer_data_[i] = logical[at]

\* a host-to-device copy of nbytes bytes to offset dst that the driver carried out
Copied(dst, nbytes) == [dst |-> dst, nbytes |-> nbytes, ok |-> TRUE]

\* C15. Boundary policy of a buffered Write (capacity C > 0, s bytes staged, n bytes
\* written, driver working): with n > 0 and s + n >= C it issues one copy of the s
\* staged bytes to where they were written (none when s = 0) and then one copy of all n
\* new bytes at the position, and leaves nothing staged; with n > 0 and s + n < C it
\* issues no copy and s + n bytes are staged; with n = 0 nothing changes; in every case
\* the position advances by n.
C15_BoundaryPolicy ==
    [][ (last'.op = "Write" /\ w.buffer_size_ > 0) =>
          LET n == last'.arg
              s == w.buffer_position_
              C == w.buffer_size_
          IN  /\ w'.status = "OK"
              /\ w'.position_ = w.position_ + n
              /\ (n > 0 /\ s + n >= C) =>
                    /\ w'.copies = (IF s > 0 THEN <<Copied(w.position_ - s, s)>> ELSE <<>>)
                                     \o <<Copied(w.position_, n)>>
                    /\ w'.buffer_position_ = 0
              /\ (n > 0 /\ s + n < C) =>
                    /\ w'.copies = <<>>
                    /\ w'.buffer_position_ = s + n
                    /\ w'.dev = w.dev
              /\ n = 0 => w' = [Enter(w) EXCEPT !.status = "OK"] ]_vars

\* a Write that found bytes staged and reached the capacity exactly: the staged bytes
\* were flushed, then the new bytes copied directly
C15_Witness ==
    /\ last.op = "Write"
    /\ last.status = "OK"
    /\ w.buffer_size_ > 0
    /\ Len(w.copies) = 2
    /\ w.copies[1].nbytes + w.copies[2].nbytes = w.buffer_size_
    /\ w.copies[2].dst = w.copies[1].dst + w.copies[1].nbytes
    /\ w.buffer_position_ = 0
    /\ ~w.overflow
    /\ w.dev = logical

----------------------------------------------------------------------------
(* Claims about concurrent WriteAt calls *)

\* the threads inside WriteAt: past the lock_guard, their Write not yet returned
Inside == {t \in Threads : pc[t] \in {"seek", "write"}}

\* C16. WriteAt is indivisible with respect to other WriteAt calls on the same writer:
\* while one call is between its seek and the return of its write, it holds the lock
\* and no step of another thread's WriteAt is taken (no other thread moves, and the
\* writer changes only by the steps of the call that is inside).
C16_WriteAtIndivisible ==
    [][ \A t \in Inside :
          /\ lock_ = t
          /\ \A o \in Threads \ {t} : pc'[o] = pc[o]
          /\ w' # w => pc'[t] # pc[t] ]_vars

\* a second thread is waiting at the lock while the first has done its seek and not
\* yet its write; the second has not touched the writer
C16_Witness ==
    /\ \E t \in Threads : pc[t] = "write" /\ lock_ = t /\ w.position_ = req[t].position
    /\ \E o \in Threads : pc[o] = "start" /\ req[o].position # w.position_
    /\ w.buffer_size_ > 0

----------------------------------------------------------------------------
(* Claims about changing the staging capacity *)

\* C17. SetBufferSize(n) called at any point of a write sequence first flushes the
\* staged bytes to [position - stagedBytes, position), then installs a fresh staging
\* buffer of capacity n with nothing staged and the position unchanged; the device then
\* holds every byte written so far at the offset it was written to.
C17_SetBufferSizeFlushes ==
    [][ last'.op = "SetBufferSize" =>
          LET s == w.buffer_position_
          IN  /\ w'.status = "OK"
              /\ w'.copies = IF s > 0 THEN <<Copied(w.position_ - s, s)>> ELSE <<>>
              /\ w'.buffer_size_ = last'.arg
              /\ w'.host_buffer_data_ = [i \in 0..(last'.arg - 1) |-> Uninit]
              /\ w'.buffer_position_ = 0
              /\ w'.position_ = w.position_
              /\ ~w'.overflow => w'.dev = logical' ]_vars

\* the capacity was changed while bytes were staged: they were flushed to where they
\* had been written and the new buffer is empty
C17_Witness ==
    /\ last.op = "SetBufferSize"
    /\ last.status = "OK"
    /\ Len(w.copies) = 1
    /\ w.copies[1].nbytes > 0
    /\ w.copies[1].dst + w.copies[1].nbytes = w.position_
    /\ w.buffer_size_ = last.arg
    /\ w.buffer_size_ > 0
    /\ w.buffer_position_ = 0
    /\ ~w.overflow
    /\ w.dev = logical

----------------------------------------------------------------------------
(* Claims about the bounds of the device buffer *)

\* C19. Writes never leave the device buffer: in every state reached by Write, Seek,
\* Flush and SetBufferSize on a writer over a buffer of S bytes, the position is within
\* 0..S and every host-to-device copy issued, direct or flush, targeted a range inside
\* [0, S); a Write that would extend past the end is stopped, not copied.
C19_WritesStayInBuffer ==
    /\ 0 <= w.position_
    /\ w.position_ <= w.size_
    /\ ~w.overflow
    /\ \A i \in DOMAIN w.copies :
          w.copies[i].nbytes > 0 =>
              /\ 0 <= w.copies[i].dst
              /\ w.copies[i].dst + w.copies[i].nbytes <= w.size_

----------------------------------------------------------------------------
(* The cursor and the staging count under every public call, WriteAt included, over *)
(* a driver that can fail; the bytes written all have one value, and what the       *)
(* device should hold is not followed.                                              *)

Fill == {[i \in 1..n |-> 1] : n \in 0..MaxLen}

G_SetBufferSize ==
    /\ ~w.overflow
    /\ \E n \in 0..MaxCap, d \in Unreliable :
          /\ w' = Writer_SetBufferSize(Enter(w), n, d)
          /\ last' = Call("SetBufferSize", n, w'.status)
    /\ UNCHANGED <<u, logical, phase, threadVars, bufferVars, ipc>>

G_Write ==
    /\ ~w.overflow
    /\ \E data \in Fill, d \in Unreliable :
          /\ w' = Writer_Write(Enter(w), data, d)
          /\ last' = Call("Write", Len(data), w'.status)
    /\ UNCHANGED <<u, logical, phase, threadVars, bufferVars, ipc>>

G_Seek ==
    /\ ~w.overflow
    /\ \E p \in Positions, d \in Unreliable :
          /\ w' = Writer_Seek(Enter(w), p, d)
          /\ last' = Call("Seek", p, w'.status)
    /\ UNCHANGED <<u, logical, phase, threadVars, bufferVars, ipc>>

G_WriteAt ==
    /\ ~w.overflow
    /\ \E p \in Positions, data \in Fill, d \in Unreliable :
          /\ w' = Writer_WriteAt(Enter(w), p, data, d)
          /\ last' = Call("WriteAt", p, w'.status)
    /\ UNCHANGED <<u, logical, phase, threadVars, bufferVars, ipc>>

G_Flush ==
    /\ ~w.overflow
    /\ \E d \in Unreliable :
          /\ w' = Writer_Flush(Enter(w), d)
          /\ last' = Call("Flush", 0, w'.status)
    /\ UNCHANGED <<u, logical, phase, threadVars, bufferVars, ipc>>

G_Close ==
    /\ ~w.overflow
    /\ \E d \in Unreliable :
          /\ w' = Writer_Close(Enter(w), d)
          /\ last' = Call("Close", 0, w'.status)
    /\ UNCHANGED <<u, logical, phase, threadVars, bufferVars, ipc>>

NextStaging ==
    \/ G_SetBufferSize
    \/ G_Write
    \/ G_Seek
    \/ G_WriteAt
    \/ G_Flush
    \/ G_Close

SpecStaging == InitWriter /\ [][NextStaging]_vars

\* C20. Staging never overflows: in every state reached by SetBufferSize(n >= 0),
\* Write, Seek, WriteAt, Flush and Close, nothing is staged when the capacity is 0, and
\* 0 <= stagedBytes < capacity when it is positive; the staged bytes lie within
\* [0, capacity) of the current pinned host buffer.
C20_StagingNeverOverflows ==
    /\ w.buffer_size_ >= 0
    /\ w.buffer_size_ = 0 => w.buffer_position_ = 0
    /\ w.buffer_size_ > 0 => (0 <= w.buffer_position_ /\ w.buffer_position_ < w.buffer_size_)
    /\ DOMAIN w.host_buffer_data_ = 0..(w.buffer_size_ - 1)
    /\ \A i \in 0..(w.buffer_position_ - 1) :
          i \in DOMAIN w.host_buffer_data_ /\ w.host_buffer_data_[i] # Uninit

\* a WriteAt has staged its byte behind one staged before: the staging buffer is one
\* byte short of full
C20_Witness ==
    /\ last.op = "WriteAt"
    /\ last.status = "OK"
    /\ w.buffer_size_ > 1
    /\ w.buffer_position_ = w.buffer_size_ - 1
    /\ w.buffer_position_ > 0
    /\ w.copies = <<>>

WriterOps == {"SetBufferSize", "Write", "Seek", "Flush", "Close"}

\* C18. Driver failures in the writer are returned without retry and without losing
\* data: when a host-to-device copy fails inside Write, Flush, Seek, SetBufferSize or
\* Close, the call returns the driver's error, the failed copy is the last thing it
\* asked of the driver (one attempt), the position is where it was, and if the failed
\* copy was the flush of the staged bytes, they are still staged, count and content.
C18_DriverFailureKeepsData ==
    [][ (last'.op \in WriterOps /\ w'.copies # <<>> /\ ~w'.copies[Len(w'.copies)].ok) =>
          LET k == Len(w'.copies)
          IN  /\ w'.status = "DriverError"
              /\ last'.status = "DriverError"
              /\ \A i \in 1..(k - 1) : w'.copies[i].ok
              /\ w'.position_ = w.position_
              /\ w'.buffer_size_ = w.buffer_size_
              /\ (k = 1 /\ w.buffer_position_ > 0) =>
                    /\ w'.copies[1] = [dst |-> w.position_ - w.buffer_position_,
                                       nbytes |-> w.buffer_position_, ok |-> FALSE]
                    /\ w'.buffer_position_ = w.buffer_position_
                    /\ w'.host_buffer_data_ = w.host_buffer_data_
                    /\ w'.dev = w.dev ]_vars

\* a Write that had to flush staged bytes first, and whose flush the driver refused
C18_Witness ==
    /\ last.op = "Write"
    /\ last.arg > 0
    /\ last.status = "DriverError"
    /\ Len(w.copies) = 1
    /\ ~w.copies[1].ok
    /\ w.buffer_position_ > 0
    /\ w.copies[1].nbytes = w.buffer_position_
    /\ w.copies[1].dst = w.position_ - w.buffer_position_

====
